---------------------------- MODULE Spec2Model ----------------------------
(***************************************************************************)
(* A model of the safa-abi boundary encodings: the ErrorStatus catalogue   *)
(* and the SysResult word (src/src/errors.rs), and the Slice / Str         *)
(* validation entry points (src/src/ffi/slice.rs, src/src/ffi/str.rs).     *)
(*                                                                         *)
(* The library is stateless: every operation is a function of its          *)
(* arguments.  The state of the model is therefore the frame of the call   *)
(* being observed: which operation ran (op), on what (arg), what it gave   *)
(* back (ret), and, for an operation applied to the result of another one, *)
(* the call that produced its input (prev).  vlog is the sequence of       *)
(* addresses handed to the caller-supplied validator during the call.      *)
(***************************************************************************)
EXTENDS Integers, Sequences, FiniteSets, TLC

VARIABLES op, arg, ret, prev, vlog

vars == <<op, arg, ret, prev, vlog>>

---------------------------------------------------------------------------
(* Machine integers.  isize/usize are modelled WordBits wide (TLC's        *)
(* integers are 32 bit, so the 64 bit word of the targets is scaled down;  *)
(* WordBits stays above U16Bits so that a word has bits a u16 has not).    *)

WordBits == 20

U16Bits == 16

\* how many values are sampled on each side of a boundary of a range
Window == 2

IsizeMax == 2^(WordBits - 1) - 1

IsizeMin == -(2^(WordBits - 1))

UsizeMax == 2^WordBits - 1

\* `x as isize` for a usize x: the same bits read as two's complement
AsIsize(x) == IF x > IsizeMax THEN x - 2^WordBits ELSE x

\* `x as usize` for an isize x
AsUsize(x) == IF x < 0 THEN x + 2^WordBits ELSE x

\* `x as u16` for an isize x: the low 16 bits
AsU16(x) == x % (2^U16Bits)

\* `-x` on isize without overflow checks: two's complement negation wraps
WrappingNeg(x) == IF x = IsizeMin THEN IsizeMin ELSE -x

---------------------------------------------------------------------------
(* Values of Result<_, _>, plain returns and panics, as records of one     *)
(* shape.                                                                  *)

RustOk(v) == [tag |-> "Ok", val |-> v, kind |-> "-"]

RustErr(k) == [tag |-> "Err", val |-> 0, kind |-> k]

\* a function that returns a plain value (not a Result)
Returns(v) == [tag |-> "Ret", val |-> v, kind |-> "-"]

\* a function that returns a plain ErrorStatus
ReturnsKind(k) == [tag |-> "Ret", val |-> 0, kind |-> k]

Panics(msg) == [tag |-> "Panic", val |-> 0, kind |-> msg]

\* the unit error of Result<_, ()>
Unit == "()"

---------------------------------------------------------------------------
(* errors.rs: the ErrorStatus enumeration, #[repr(u16)], by discriminant.  *)

ErrorStatus ==
    [ Generic |-> 1, OperationNotSupported |-> 2, NotSupported |-> 3,
      Corrupted |-> 4, InvalidSyscall |-> 5, UnknownResource |-> 6,
      InvalidPid |-> 7, InvalidOffset |-> 8, InvalidPtr |-> 9,
      InvalidStr |-> 10, StrTooLong |-> 11, InvalidPath |-> 12,
      NoSuchAFileOrDirectory |-> 13, NotAFile |-> 14, NotADirectory |-> 15,
      AlreadyExists |-> 16, NotExecutable |-> 17, DirectoryNotEmpty |-> 18,
      MissingPermissions |-> 19, MMapError |-> 20, Busy |-> 21,
      NotEnoughArguments |-> 22, OutOfMemory |-> 23, InvalidTid |-> 24,
      Timeout |-> 25, InvalidCommand |-> 26, InvalidArgument |-> 27,
      Unknown |-> 28, Panic |-> 29, NotADevice |-> 30, WouldBlock |-> 31,
      ConnectionClosed |-> 32, ConnectionRefused |-> 33,
      UnsupportedResource |-> 34, ResourceCloneFailed |-> 35,
      TypeMismatch |-> 36, TooShort |-> 37, AddressNotFound |-> 38,
      InvalidSize |-> 39, ForceTerminated |-> 40, AddressAlreadyInUse |-> 41,
      NotBound |-> 42 ]

ErrorKinds == DOMAIN ErrorStatus

\* `k as u16` / `k as isize`
Discriminant(k) == ErrorStatus[k]

\* MAX left at the kind declared before the last one
ErrorStatusMAX_Stale == Discriminant("AddressAlreadyInUse")

\* const MAX: u16 = Self::NotBound as u16
ErrorStatusMAX == Discriminant("NotBound")

\* core::mem::transmute(value): the variant whose discriminant is value
Transmute(value) == CHOOSE k \in ErrorKinds : Discriminant(k) = value

\* the range test with the upper bound exclusive
try_from_u16_OffByOne(value) ==
    IF value > 0 /\ value < ErrorStatusMAX
    THEN [tag |-> "Ok", val |-> 0, kind |-> Transmute(value)]
    ELSE RustErr(Unit)

try_from_u16(value) ==
    IF value > 0 /\ value <= ErrorStatusMAX
    THEN [tag |-> "Ok", val |-> 0, kind |-> Transmute(value)]
    ELSE RustErr(Unit)

from_u16(value) ==
    LET r == try_from_u16(value)
    IN  IF r.tag = "Ok" THEN r.kind ELSE "Unknown"

---------------------------------------------------------------------------
(* errors.rs: SysResult(isize).  A SysResult is modelled by its word.      *)

\* the error code stored without the sign
err_NoNeg(e) == Discriminant(e)

err(e) == -Discriminant(e)

\* overflow_checks: whether the build traps on integer overflow (the debug
\* profile does, the release profile wraps); it decides what `-self.0`
\* does on the most negative word.
into_result(self, overflow_checks) ==
    IF self < 0
    THEN IF self = IsizeMin /\ overflow_checks
         THEN Panics("attempt to negate with overflow")
         ELSE RustErr(from_u16(AsU16(WrappingNeg(self))))
    ELSE RustOk(AsUsize(self))

\* the range test rejecting isize::MAX itself
try_ok_RejectsMax(value) ==
    LET v == AsIsize(value)
    IN  IF v < 0 \/ v = IsizeMax THEN RustErr(Unit) ELSE RustOk(v)

\* the cast without the sign test
try_ok_Unchecked(value) == RustOk(AsIsize(value))

try_ok(value) ==
    LET v == AsIsize(value)
    IN  IF v < 0 THEN RustErr(Unit) ELSE RustOk(v)

try_from_result(result) ==
    IF result.tag = "Err" THEN RustOk(err(result.kind)) ELSE try_ok(result.val)

\* the cast without the panic: an oversized payload wraps
ok_Wrapping(value) == Returns(AsIsize(value))

ok(value) ==
    LET r == try_ok(value)
    IN  IF r.tag = "Ok"
        THEN Returns(r.val)
        ELSE Panics("Attempt to construct an Ok SysResult value larger than isize::MAX")

from_isize(isize) == isize

\* impl From<Result<usize, ErrorStatus>> for SysResult: try_from_result(..).expect(..)
from_result(value) ==
    LET r == try_from_result(value)
    IN  IF r.tag = "Ok" THEN Returns(r.val) ELSE Panics("Ok value is bigger than isize::MAX")

---------------------------------------------------------------------------
(* Inputs.  Values are sampled around the boundaries the code tests:       *)
(* zero, the catalogue's MAX, the u16 range and the ends of the word.      *)

\* codes offered to from_u16 / try_from_u16
U16Samples ==
    (0 .. ErrorStatusMAX + Window) \cup ((2^U16Bits - 1 - Window) .. (2^U16Bits - 1))

\* payloads offered to the Ok constructors
UsizeSamples ==
    (0 .. Window)
        \cup ((IsizeMax - Window) .. (IsizeMax + 1 + Window))
        \cup ((UsizeMax - Window) .. UsizeMax)

\* magnitudes of the negative words a foreign sender may hand over
Magnitudes ==
    { m \in (1 .. ErrorStatusMAX + Window)
               \cup ((2^U16Bits - Window) .. (2^U16Bits - 1))
               \cup { j * 2^U16Bits + c : j \in 1 .. Window,
                                          c \in 0 .. ErrorStatusMAX + Window }
               \cup ((IsizeMax - Window) .. IsizeMax) :
      m <= IsizeMax }

\* words offered to from_isize
IsizeSamples ==
    { -m : m \in Magnitudes } \cup {IsizeMin}
        \cup (0 .. Window) \cup ((IsizeMax - Window) .. IsizeMax)

\* Result<usize, ErrorStatus> values offered to try_from_result / From
ResultSamples ==
    { RustOk(p) : p \in UsizeSamples } \cup { RustErr(k) : k \in ErrorKinds }

NoCall == [op |-> "none", arg |-> 0]

\* no call has been made yet
Idle == op = "none"

\* the frame of a call that is not applied to the result of another call
Call(name, a, r) ==
    /\ op' = name
    /\ arg' = a
    /\ ret' = r
    /\ prev' = NoCall
    /\ vlog' = << >>

---------------------------------------------------------------------------
(* errors.rs: one action per operation.                                    *)

TryFromU16 ==
    /\ Idle
    /\ \E c \in U16Samples : Call("try_from_u16", c, try_from_u16(c))

FromU16 ==
    /\ Idle
    /\ \E c \in U16Samples : Call("from_u16", c, ReturnsKind(from_u16(c)))

Err ==
    /\ Idle
    /\ \E k \in ErrorKinds : Call("err", k, Returns(err(k)))

TryOk ==
    /\ Idle
    /\ \E p \in UsizeSamples : Call("try_ok", p, try_ok(p))

Ok ==
    /\ Idle
    /\ \E p \in UsizeSamples : Call("ok", p, ok(p))

TryFromResult ==
    /\ Idle
    /\ \E r \in ResultSamples : Call("try_from_result", r, try_from_result(r))

FromResult ==
    /\ Idle
    /\ \E r \in ResultSamples : Call("from_result", r, from_result(r))

FromIsize ==
    /\ Idle
    /\ \E w \in IsizeSamples : Call("from_isize", w, Returns(from_isize(w)))

\* the operations that give back a SysResult
SysResultCtors == {"err", "try_ok", "ok", "try_from_result", "from_result", "from_isize"}

\* the current frame holds a SysResult (the constructor neither failed nor panicked)
HoldsSysResult == op \in SysResultCtors /\ ret.tag \in {"Ok", "Ret"}

\* into_result applied to the SysResult the previous call constructed
IntoResult ==
    /\ HoldsSysResult
    /\ \E overflow_checks \in BOOLEAN :
          /\ op' = "into_result"
          /\ arg' = [word |-> ret.val, overflow_checks |-> overflow_checks]
          /\ ret' = into_result(ret.val, overflow_checks)
          /\ prev' = [op |-> op, arg |-> arg]
          /\ vlog' = << >>

NextErrors ==
    \/ TryFromU16
    \/ FromU16
    \/ Err
    \/ TryOk
    \/ Ok
    \/ TryFromResult
    \/ FromResult
    \/ FromIsize
    \/ IntoResult

---------------------------------------------------------------------------
(* ffi/slice.rs, ffi/str.rs: Slice<T> is a pointer and an element count,   *)
(* Str is a Slice<u8>.  A pointer is an address, 0 being null.             *)

\* the largest address of the modelled address space
MaxAddr == 8

\* the most elements the backing array of a nested buffer holds
MaxInner == 2

\* element types T, by size_of::<T>() and align_of::<T>()
u8 == [name |-> "u8", size |-> 1, align |-> 1]

u16 == [name |-> "u16", size |-> 2, align |-> 2]

u32 == [name |-> "u32", size |-> 4, align |-> 4]

u64 == [name |-> "u64", size |-> 8, align |-> 8]

\* Slice<T> and Str as element types: #[repr(C)] { ptr: *mut T, len: usize }
SliceElem == [name |-> "Slice", size |-> 16, align |-> 8]

ElemTypes == {u8, u16, u32, u64}

\* enum InvalidSliceError
InvalidSliceError == {"PtrNotAligned", "PtrIsNull", "LenTooLarge", "Other"}

\* Result<&mut [T], InvalidSliceError>: the view's pointer and length, or the error
SliceOk(p, n) == [tag |-> "Ok", ptr |-> p, len |-> n, kind |-> "-"]

SliceErr(e) == [tag |-> "Err", ptr |-> 0, len |-> 0, kind |-> e]

\* enum InvalidStrError
StrInvalidSliceError(e) == [variant |-> "InvalidSliceError", inner |-> e]

Utf8Error == [variant |-> "Utf8Error", inner |-> "-"]

\* ptr.is_null()
is_null(p) == p = 0

\* ptr.is_aligned() for a *mut T
is_aligned(p, T) == p % T.align = 0

\* the validator closure: a predicate on addresses, given by the addresses it accepts
Accepts(validator, p) == p \in validator

\* what a validation gives back: its result and the validator invocations it made
Outcome(r, calls) == [res |-> r, calls |-> calls]

\* the length test placed before the alignment test
try_as_slice_mut_custom_LenFirst(self, T, validator) ==
    IF is_null(self.ptr) THEN Outcome(SliceErr("PtrIsNull"), << >>)
    ELSE IF self.len > IsizeMax THEN Outcome(SliceErr("LenTooLarge"), << >>)
    ELSE IF ~is_aligned(self.ptr, T) THEN Outcome(SliceErr("PtrNotAligned"), << >>)
    ELSE IF ~Accepts(validator, self.ptr) THEN Outcome(SliceErr("Other"), <<self.ptr>>)
    ELSE Outcome(SliceOk(self.ptr, self.len), <<self.ptr>>)

\* the validator consulted before the three tests of the record
try_as_slice_mut_custom_ValidatorFirst(self, T, validator) ==
    LET accepted == Accepts(validator, self.ptr)
    IN  IF is_null(self.ptr) THEN Outcome(SliceErr("PtrIsNull"), <<self.ptr>>)
        ELSE IF ~is_aligned(self.ptr, T) THEN Outcome(SliceErr("PtrNotAligned"), <<self.ptr>>)
        ELSE IF self.len > IsizeMax THEN Outcome(SliceErr("LenTooLarge"), <<self.ptr>>)
        ELSE IF ~accepted THEN Outcome(SliceErr("Other"), <<self.ptr>>)
        ELSE Outcome(SliceOk(self.ptr, self.len), <<self.ptr>>)

try_as_slice_mut_custom(self, T, validator) ==
    IF is_null(self.ptr) THEN Outcome(SliceErr("PtrIsNull"), << >>)
    ELSE IF ~is_aligned(self.ptr, T) THEN Outcome(SliceErr("PtrNotAligned"), << >>)
    ELSE IF self.len > IsizeMax THEN Outcome(SliceErr("LenTooLarge"), << >>)
    ELSE IF ~Accepts(validator, self.ptr) THEN Outcome(SliceErr("Other"), <<self.ptr>>)
    ELSE Outcome(SliceOk(self.ptr, self.len), <<self.ptr>>)

\* the bytes of the caller's memory, by address (1 .. Len(Bytes)):
\* "A", then U+00E9 in two bytes, then a byte no UTF-8 text holds, then "B"
Bytes == <<65, 195, 169, 255, 66>>

\* the len bytes at ptr
BytesAt(p, n) == [i \in 1 .. n |-> Bytes[p + i - 1]]

IsCont(b) == 128 <= b /\ b <= 191

\* core::str::from_utf8_mut succeeds: the bytes are well-formed UTF-8
RECURSIVE from_utf8_ok(_)
from_utf8_ok(bytes) ==
    LET n == Len(bytes)
        b == bytes[1]
        Rest(k) == SubSeq(bytes, k + 1, n)
    IN  IF n = 0 THEN TRUE
        ELSE IF b < 128 THEN from_utf8_ok(Rest(1))
        ELSE IF 194 <= b /\ b <= 223
             THEN n >= 2 /\ IsCont(bytes[2]) /\ from_utf8_ok(Rest(2))
        ELSE IF 224 <= b /\ b <= 239
             THEN /\ n >= 3 /\ IsCont(bytes[2]) /\ IsCont(bytes[3])
                  /\ (b = 224 => bytes[2] >= 160)
                  /\ (b = 237 => bytes[2] <= 159)
                  /\ from_utf8_ok(Rest(3))
        ELSE IF 240 <= b /\ b <= 244
             THEN /\ n >= 4 /\ IsCont(bytes[2]) /\ IsCont(bytes[3]) /\ IsCont(bytes[4])
                  /\ (b = 240 => bytes[2] >= 144)
                  /\ (b = 244 => bytes[2] <= 143)
                  /\ from_utf8_ok(Rest(4))
        ELSE FALSE

\* the UTF-8 test run on the bytes before the buffer tests
try_as_str_mut_custom_Utf8First(self, custom_validate) ==
    LET byte_slice == try_as_slice_mut_custom(self, u8, custom_validate)
    IN  IF /\ self.ptr # 0
           /\ self.ptr + self.len - 1 <= Len(Bytes)
           /\ ~from_utf8_ok(BytesAt(self.ptr, self.len))
        THEN Outcome(SliceErr(Utf8Error), byte_slice.calls)
        ELSE IF byte_slice.res.tag = "Err"
             THEN Outcome(SliceErr(StrInvalidSliceError(byte_slice.res.kind)),
                          byte_slice.calls)
             ELSE byte_slice

\* Str::try_as_str_mut_custom; self is the Str's Slice<u8>
try_as_str_mut_custom(self, custom_validate) ==
    LET byte_slice == try_as_slice_mut_custom(self, u8, custom_validate)
    IN  IF byte_slice.res.tag = "Err"
        THEN Outcome(SliceErr(StrInvalidSliceError(byte_slice.res.kind)), byte_slice.calls)
        ELSE IF from_utf8_ok(BytesAt(self.ptr, self.len))
             THEN byte_slice
             ELSE Outcome(SliceErr(Utf8Error), byte_slice.calls)

try_as_str_custom(self, custom_validate) == try_as_str_mut_custom(self, custom_validate)

\* what a nested conversion gives back: also the backing array as it leaves it
NestedOutcome(r, calls, backing) == [res |-> r, calls |-> calls, backing |-> backing]

\* a local layout that keeps the length before the pointer
RawParts_LenFirst(view) == [ptr |-> view.len, len |-> view.ptr]

\* the (pointer, length) pair a validated view is stored as
RawParts(view) == [ptr |-> view.ptr, len |-> view.len]

\* the loop of try_into_slices_ptr_mut from index i on; root is the backing
\* array as read, results the same array as written so far
RECURSIVE slices_loop(_, _, _, _, _, _)
slices_loop(root, results, T, custom_validate, i, calls) ==
    IF ~(i <= Len(results))
    THEN NestedOutcome(SliceOk(0, Len(results)), calls, results)
    ELSE LET r == try_as_slice_mut_custom(root[i], T, custom_validate)
         IN  IF r.res.tag = "Err"
             THEN NestedOutcome(r.res, calls \o r.calls, results)
             ELSE slices_loop(root, [results EXCEPT ![i] = RawParts(r.res)], T,
                              custom_validate, i + 1, calls \o r.calls)

\* the loop reporting the last failure instead of stopping at the first
RECURSIVE slices_loop_LastError(_, _, _, _, _, _, _)
slices_loop_LastError(root, results, T, custom_validate, i, calls, failure) ==
    IF ~(i <= Len(results))
    THEN NestedOutcome(failure, calls, results)
    ELSE LET r == try_as_slice_mut_custom(root[i], T, custom_validate)
         IN  slices_loop_LastError(root, results, T, custom_validate, i + 1,
                                   calls \o r.calls,
                                   IF r.res.tag = "Err" THEN r.res ELSE failure)

try_into_slices_ptr_mut_LastError(self, backing, T, custom_validate) ==
    LET root == try_as_slice_mut_custom(self, SliceElem, custom_validate)
    IN  IF root.res.tag = "Err"
        THEN NestedOutcome(root.res, root.calls, backing)
        ELSE LET out == slices_loop_LastError(backing, backing, T, custom_validate, 1,
                                              root.calls, SliceOk(0, Len(backing)))
             IN  IF out.res.tag = "Err"
                 THEN out
                 ELSE NestedOutcome(SliceOk(self.ptr, self.len), out.calls, out.backing)

\* the elements validated before the outer record is
try_into_slices_ptr_mut_InnerFirst(self, backing, T, custom_validate) ==
    LET out == slices_loop(backing, backing, T, custom_validate, 1, << >>)
        root == try_as_slice_mut_custom(self, SliceElem, custom_validate)
    IN  IF root.res.tag = "Err"
        THEN NestedOutcome(root.res, out.calls \o root.calls, backing)
        ELSE IF out.res.tag = "Err"
             THEN NestedOutcome(out.res, out.calls \o root.calls, out.backing)
             ELSE NestedOutcome(SliceOk(self.ptr, self.len), out.calls \o root.calls,
                                out.backing)

\* Slice<Slice<T>>::try_into_slices_ptr_mut; backing is the array self.ptr
\* addresses, of self.len elements when self passes validation
try_into_slices_ptr_mut(self, backing, T, custom_validate) ==
    LET root == try_as_slice_mut_custom(self, SliceElem, custom_validate)
    IN  IF root.res.tag = "Err"
        THEN NestedOutcome(root.res, root.calls, backing)
        ELSE LET out == slices_loop(backing, backing, T, custom_validate, 1, root.calls)
             IN  IF out.res.tag = "Err"
                 THEN out
                 ELSE NestedOutcome(SliceOk(self.ptr, self.len), out.calls, out.backing)

\* the loop of try_into_str_slices_mut from index i on
RECURSIVE str_slices_loop(_, _, _, _, _)
str_slices_loop(root, results, custom_validate, i, calls) ==
    IF ~(i <= Len(results))
    THEN NestedOutcome(SliceOk(0, Len(results)), calls, results)
    ELSE LET r == try_as_str_custom(root[i], custom_validate)
         IN  IF r.res.tag = "Err"
             THEN NestedOutcome(r.res, calls \o r.calls, results)
             ELSE str_slices_loop(root, [results EXCEPT ![i] = RawParts(r.res)],
                                  custom_validate, i + 1, calls \o r.calls)

\* Slice<Str>::try_into_str_slices_mut
try_into_str_slices_mut(self, backing, custom_validate) ==
    LET root == try_as_slice_mut_custom(self, SliceElem, custom_validate)
    IN  IF root.res.tag = "Err"
        THEN NestedOutcome(SliceErr(StrInvalidSliceError(root.res.kind)), root.calls, backing)
        ELSE LET out == str_slices_loop(backing, backing, custom_validate, 1, root.calls)
             IN  IF out.res.tag = "Err"
                 THEN out
                 ELSE NestedOutcome(SliceOk(self.ptr, self.len), out.calls, out.backing)

---------------------------------------------------------------------------
(* Inputs of the validation entry points.                                  *)

PtrSamples == 0 .. MaxAddr

LenSamples ==
    (0 .. Window) \cup ((IsizeMax - Window) .. (IsizeMax + 1 + Window)) \cup {UsizeMax}

\* validators: the caller's mapped range reaches from lo to MaxAddr (none when
\* lo is beyond MaxAddr)
Validators == { lo .. MaxAddr : lo \in 1 .. MaxAddr + 1 }

RawSlice(p, n) == [ptr |-> p, len |-> n]

\* inner Slice<T> records a sender may put in a backing array
InnerSliceSamples == { RawSlice(p, l) : p \in {0, 2, 4}, l \in {1, IsizeMax + 1} }

\* inner Str records: in-bounds ranges of Bytes, a null one and an oversized one
InnerStrSamples ==
    { RawSlice(0, 1), RawSlice(1, 1), RawSlice(2, 1), RawSlice(2, 2), RawSlice(4, 1),
      RawSlice(1, IsizeMax + 1) }

\* the backing arrays built from the element records in S
Backings(S) == UNION { [1 .. n -> S] : n \in 0 .. MaxInner }

\* where a backing array may claim to be: null, misaligned for Slice<T>, aligned
OuterPtrSamples == { p \in PtrSamples : p % u32.align = 0 }

\* the element counts an outer record may state for a backing array: the
\* array's own, or one beyond isize::MAX
OuterLens(backing) == {Len(backing), IsizeMax + 1}

\* single Str records: the inner samples and the empty and the whole text
StrSamples == InnerStrSamples \cup {RawSlice(1, 0), RawSlice(1, 3), RawSlice(1, 5)}

---------------------------------------------------------------------------
(* slice.rs, str.rs: one action per operation.                             *)

\* the frame of a validation call
Validation(name, a, out) ==
    /\ op' = name
    /\ arg' = a
    /\ ret' = out.res
    /\ prev' = NoCall
    /\ vlog' = out.calls

TryAsSliceMutCustom ==
    /\ Idle
    /\ \E p \in PtrSamples, l \in LenSamples, T \in ElemTypes, v \in Validators :
          Validation("try_as_slice_mut_custom",
                     [self |-> RawSlice(p, l), T |-> T, validator |-> v],
                     try_as_slice_mut_custom(RawSlice(p, l), T, v))

TryAsStrMutCustom ==
    /\ Idle
    /\ \E s \in StrSamples, v \in Validators :
          Validation("try_as_str_mut_custom",
                     [self |-> s, validator |-> v],
                     try_as_str_mut_custom(s, v))

\* the frame of a nested conversion: arg.backing is the backing array before
\* the call and arg.after the same array after it
NestedValidation(name, self, backing, T, v, out) ==
    Validation(name,
               [self |-> self, backing |-> backing, T |-> T, validator |-> v,
                after |-> out.backing],
               out)

TryIntoSlicesPtrMut ==
    /\ Idle
    /\ \E backing \in Backings(InnerSliceSamples), T \in {u8, u32}, v \in Validators :
          \E p \in OuterPtrSamples, l \in OuterLens(backing) :
              NestedValidation("try_into_slices_ptr_mut", RawSlice(p, l), backing, T, v,
                               try_into_slices_ptr_mut(RawSlice(p, l), backing, T, v))

TryIntoStrSlicesMut ==
    /\ Idle
    /\ \E backing \in Backings(InnerStrSamples), v \in Validators :
          \E p \in OuterPtrSamples, l \in OuterLens(backing) :
              NestedValidation("try_into_str_slices_mut", RawSlice(p, l), backing, u8, v,
                               try_into_str_slices_mut(RawSlice(p, l), backing, v))

---------------------------------------------------------------------------
(* slice.rs, str.rs: the constructors from local data, the other           *)
(* validating entry points, and the mapping of failures to ErrorStatus.    *)

\* an empty slice exported with a null pointer
from_slice_NullWhenEmpty(slice) ==
    IF slice.len = 0 THEN RawSlice(0, 0) ELSE RawSlice(slice.ptr, slice.len)

\* Slice::from_slice: the slice's as_ptr() and len()
from_slice(slice) == RawSlice(slice.ptr, slice.len)

\* Str::from_str: Slice::from_slice(s.as_bytes())
from_str(s) == from_slice(s)

\* the closure |_| true
AlwaysTrue == 0 .. MaxAddr

\* the immutable variant run without the validator
try_as_slice_custom_NoValidator(self, T, validator) ==
    try_as_slice_mut_custom(self, T, AlwaysTrue)

try_as_slice_custom(self, T, validator) ==
    LET r == try_as_slice_mut_custom(self, T, validator)
    IN  IF r.res.tag = "Ok" THEN Outcome(SliceOk(r.res.ptr, r.res.len), r.calls)
        ELSE Outcome(SliceErr(r.res.kind), r.calls)

try_as_slice_mut(self, T) ==
    LET r == try_as_slice_mut_custom(self, T, AlwaysTrue)
    IN  IF r.res.tag = "Ok" THEN Outcome(SliceOk(r.res.ptr, r.res.len), r.calls)
        ELSE Outcome(SliceErr(r.res.kind), r.calls)

try_as_slice(self, T) ==
    LET r == try_as_slice_custom(self, T, AlwaysTrue)
    IN  IF r.res.tag = "Ok" THEN Outcome(SliceOk(r.res.ptr, r.res.len), r.calls)
        ELSE Outcome(SliceErr(r.res.kind), r.calls)

try_as_str(self) ==
    LET r == try_as_str_custom(self, AlwaysTrue)
    IN  IF r.res.tag = "Ok" THEN Outcome(SliceOk(r.res.ptr, r.res.len), r.calls)
        ELSE Outcome(SliceErr(r.res.kind), r.calls)

try_as_str_mut(self) ==
    LET r == try_as_str_mut_custom(self, AlwaysTrue)
    IN  IF r.res.tag = "Ok" THEN Outcome(SliceOk(r.res.ptr, r.res.len), r.calls)
        ELSE Outcome(SliceErr(r.res.kind), r.calls)

\* every failure reported as InvalidPtr
slice_into_err_AllInvalidPtr(e) == "InvalidPtr"

\* impl IntoErr for InvalidSliceError
slice_into_err(e) == IF e = "LenTooLarge" THEN "StrTooLong" ELSE "InvalidPtr"

\* impl IntoErr for InvalidStrError
str_into_err(e) ==
    IF e.variant = "InvalidSliceError" THEN slice_into_err(e.inner) ELSE "InvalidStr"

\* local slices of T: non-null, aligned, at most isize::MAX bytes; an empty
\* slice has such a pointer too
LocalSlices(T) ==
    { RawSlice(p, n) : p \in { q \in PtrSamples : q # 0 /\ q % T.align = 0 },
                       n \in { m \in LenSamples : m * T.size <= IsizeMax } }

\* local strs: the in-bounds ranges of Bytes that are well-formed UTF-8
LocalStrs ==
    { s \in { RawSlice(p, n) : p \in 1 .. Len(Bytes), n \in 0 .. Len(Bytes) } :
        s.ptr + s.len - 1 <= Len(Bytes) /\ from_utf8_ok(BytesAt(s.ptr, s.len)) }

FromSlice ==
    /\ Idle
    /\ \E T \in ElemTypes : \E s \in LocalSlices(T) :
          Call("from_slice", [slice |-> s, T |-> T], from_slice(s))

FromStr ==
    /\ Idle
    /\ \E s \in LocalStrs : Call("from_str", [slice |-> s, T |-> u8], from_str(s))

\* the frame of a validation of the record the previous call constructed
ValidationOfRet(name, a, out) ==
    /\ op' = name
    /\ arg' = a
    /\ ret' = out.res
    /\ prev' = [op |-> op, arg |-> arg]
    /\ vlog' = out.calls

TryAsSliceCustom ==
    /\ Idle
    /\ \E p \in PtrSamples, l \in LenSamples, T \in ElemTypes, v \in Validators :
          Validation("try_as_slice_custom",
                     [self |-> RawSlice(p, l), T |-> T, validator |-> v],
                     try_as_slice_custom(RawSlice(p, l), T, v))

TryAsSliceMut ==
    /\ Idle
    /\ \E p \in PtrSamples, l \in LenSamples, T \in ElemTypes :
          Validation("try_as_slice_mut",
                     [self |-> RawSlice(p, l), T |-> T, validator |-> AlwaysTrue],
                     try_as_slice_mut(RawSlice(p, l), T))

\* on a record a foreign sender hands over, or on the one from_slice made
TryAsSlice ==
    \/ /\ Idle
       /\ \E p \in PtrSamples, l \in LenSamples, T \in ElemTypes :
             Validation("try_as_slice",
                        [self |-> RawSlice(p, l), T |-> T, validator |-> AlwaysTrue],
                        try_as_slice(RawSlice(p, l), T))
    \/ /\ op = "from_slice"
       /\ ValidationOfRet("try_as_slice",
                          [self |-> ret, T |-> arg.T, validator |-> AlwaysTrue],
                          try_as_slice(ret, arg.T))

TryAsStrCustom ==
    /\ Idle
    /\ \E s \in StrSamples, v \in Validators :
          Validation("try_as_str_custom",
                     [self |-> s, validator |-> v],
                     try_as_str_custom(s, v))

TryAsStr ==
    \/ /\ Idle
       /\ \E s \in StrSamples :
             Validation("try_as_str", [self |-> s, validator |-> AlwaysTrue], try_as_str(s))
    \/ /\ op = "from_str"
       /\ ValidationOfRet("try_as_str", [self |-> ret, validator |-> AlwaysTrue],
                          try_as_str(ret))

TryAsStrMut ==
    /\ Idle
    /\ \E s \in StrSamples :
          Validation("try_as_str_mut", [self |-> s, validator |-> AlwaysTrue],
                     try_as_str_mut(s))

\* the entry points that report an InvalidSliceError / an InvalidStrError
SliceValidations ==
    {"try_as_slice_mut_custom", "try_as_slice_custom", "try_as_slice_mut", "try_as_slice",
     "try_into_slices_ptr_mut"}

StrValidations ==
    {"try_as_str_mut_custom", "try_as_str_custom", "try_as_str_mut", "try_as_str",
     "try_into_str_slices_mut"}

\* into_err on the error a failed validation returned
SliceIntoErr ==
    /\ op \in SliceValidations
    /\ ret.tag = "Err"
    /\ op' = "slice_into_err"
    /\ arg' = ret.kind
    /\ ret' = ReturnsKind(slice_into_err(ret.kind))
    /\ prev' = [op |-> op, arg |-> arg]
    /\ vlog' = << >>

StrIntoErr ==
    /\ op \in StrValidations
    /\ ret.tag = "Err"
    /\ op' = "str_into_err"
    /\ arg' = ret.kind
    /\ ret' = ReturnsKind(str_into_err(ret.kind))
    /\ prev' = [op |-> op, arg |-> arg]
    /\ vlog' = << >>

\* the loop of from_slices_ptr_mut from index i on; old_slices and raw_slices
\* are the one array slices, read at i and written at i
RECURSIVE from_slices_loop(_, _)
from_slices_loop(raw_slices, i) ==
    IF ~(i <= Len(raw_slices))
    THEN raw_slices
    ELSE from_slices_loop([raw_slices EXCEPT ![i] = from_slice(raw_slices[i])], i + 1)

\* what a conversion of a local array gives back: the outer record, and the
\* array as it leaves it
Exported(r, backing) == [res |-> r, backing |-> backing]

\* Slice<Slice<T>>::from_slices_ptr_mut; slices is the array's pointer and
\* element count, backing its elements
from_slices_ptr_mut(slices, backing) ==
    Exported(from_slice(RawSlice(slices.ptr, Len(backing))), from_slices_loop(backing, 1))

RECURSIVE from_str_slices_loop(_, _)
from_str_slices_loop(raw_slices, i) ==
    IF ~(i <= Len(raw_slices))
    THEN raw_slices
    ELSE from_str_slices_loop([raw_slices EXCEPT ![i] = from_str(raw_slices[i])], i + 1)

\* Slice<Str>::from_str_slices_mut
from_str_slices_mut(slices, backing) ==
    Exported(from_slice(RawSlice(slices.ptr, Len(backing))), from_str_slices_loop(backing, 1))

\* the elements of a local array of slices of T
LocalInnerSlices(T) == { s \in LocalSlices(T) : s.ptr \in {4, MaxAddr} /\ s.len \in {0, 1} }

\* where a local array of (pointer, length) pairs lies
LocalArrayPtrs == { p \in PtrSamples : p # 0 /\ p % SliceElem.align = 0 }

FromSlicesPtrMut ==
    /\ Idle
    /\ \E T \in {u8, u32} : \E backing \in Backings(LocalInnerSlices(T)), p \in LocalArrayPtrs :
          Call("from_slices_ptr_mut",
               [slices |-> RawSlice(p, Len(backing)), backing |-> backing, T |-> T,
                after |-> from_slices_ptr_mut(RawSlice(p, Len(backing)), backing).backing],
               from_slices_ptr_mut(RawSlice(p, Len(backing)), backing).res)

FromStrSlicesMut ==
    /\ Idle
    /\ \E backing \in Backings(LocalStrs), p \in LocalArrayPtrs :
          Call("from_str_slices_mut",
               [slices |-> RawSlice(p, Len(backing)), backing |-> backing, T |-> u8,
                after |-> from_str_slices_mut(RawSlice(p, Len(backing)), backing).backing],
               from_str_slices_mut(RawSlice(p, Len(backing)), backing).res)

NextSlices ==
    \/ TryAsSliceMutCustom
    \/ TryAsStrMutCustom
    \/ TryIntoSlicesPtrMut
    \/ TryIntoStrSlicesMut
    \/ FromSlice
    \/ FromStr
    \/ TryAsSliceCustom
    \/ TryAsSliceMut
    \/ TryAsSlice
    \/ TryAsStrCustom
    \/ TryAsStr
    \/ TryAsStrMut
    \/ SliceIntoErr
    \/ StrIntoErr
    \/ FromSlicesPtrMut
    \/ FromStrSlicesMut

---------------------------------------------------------------------------
(* src/ffi/mod.rs, num.rs, ptr.rs, option.rs: NotZeroable types and        *)
(* OptZero<T>.  A value is the type it has and the words it occupies in    *)
(* memory: one word for ShouldNotBeZero<int> and for a pointer to a sized  *)
(* type, the address and the metadata for a pointer to an unsized type,    *)
(* ptr and len for Slice<T> and Str.                                       *)

\* ShouldNotBeZero<$ty> for the types of impl_zeroable_int!; the types wider
\* than 16 bits are as wide as the word
IntTypes ==
    { [kind |-> "ShouldNotBeZero", name |-> n, words |-> 1, width |-> 8, eq |-> TRUE] :
          n \in {"u8", "i8"} }
    \cup
    { [kind |-> "ShouldNotBeZero", name |-> n, words |-> 1, width |-> U16Bits, eq |-> TRUE] :
          n \in {"u16", "i16"} }
    \cup
    { [kind |-> "ShouldNotBeZero", name |-> n, words |-> 1, width |-> WordBits, eq |-> TRUE] :
          n \in {"u32", "u64", "u128", "usize", "i32", "i64", "i128", "isize"} }

\* FFINonNull<T> for a sized T and for an unsized T (a slice, a str)
PtrTypes ==
    { [kind |-> "FFINonNull", name |-> "T", words |-> 1, width |-> WordBits, eq |-> TRUE],
      [kind |-> "FFINonNull", name |-> "[T]", words |-> 2, width |-> WordBits, eq |-> TRUE] }

\* Slice<T> and Str derive no PartialEq
SliceTypes ==
    { [kind |-> "Slice", name |-> "T", words |-> 2, width |-> WordBits, eq |-> FALSE],
      [kind |-> "Str", name |-> "str", words |-> 2, width |-> WordBits, eq |-> FALSE] }

\* the implementors of NotZeroable
NotZeroableTypes == IntTypes \cup PtrTypes \cup SliceTypes

\* a value of type T holding the words bits
Value(T, bits) == [ty |-> T, bits |-> bits]

\* ZeroableThing::is_zero for the integers: *self == Self::ZERO
zeroable_is_zero(v) == v = 0

\* impl NotZeroable for ShouldNotBeZero<T>
should_not_be_zero_is_zero(self) == zeroable_is_zero(self.bits[1])

\* impl NotZeroable for FFINonNull<T>: self.0.is_null(), a test of the address
ffi_non_null_is_zero(self) == is_null(self.bits[1])

\* an empty slice taken for a zero one
slice_is_zero_EmptyIsZero(self) == is_null(self.bits[1]) \/ self.bits[2] = 0

\* impl NotZeroable for Slice<T>: self.ptr.is_null()
slice_is_zero(self) == is_null(self.bits[1])

\* impl NotZeroable for Str: self.0.is_zero()
str_is_zero(self) == slice_is_zero(self)

\* NotZeroable::is_zero, by the type of self
is_zero(self) ==
    CASE self.ty.kind = "ShouldNotBeZero" -> should_not_be_zero_is_zero(self)
      [] self.ty.kind = "FFINonNull" -> ffi_non_null_is_zero(self)
      [] self.ty.kind = "Slice" -> slice_is_zero(self)
      [] self.ty.kind = "Str" -> str_is_zero(self)

\* core::mem::zeroed::<T>()
zeroed(T) == Value(T, [i \in 1 .. T.words |-> 0])

\* Option<T>
Some(x) == [tag |-> "Some", val |-> x]

None == [tag |-> "None"]

\* struct OptZero<T>(T)
OptZero(x) == [inner |-> x]

\* OptZero::some
some(x) == OptZero(x)

\* a filled pattern in place of the zeroed one
none_Dangling(T) == OptZero(Value(T, [i \in 1 .. T.words |-> 1]))

\* OptZero::none
none(T) == OptZero(zeroed(T))

\* OptZero::from_option, for an Option<T>
from_option(opt, T) == IF opt.tag = "None" THEN none(T) ELSE some(opt.val)

\* absent only when every word is zero
into_option_AllZeroOnly(self) ==
    IF \A i \in 1 .. self.inner.ty.words : self.inner.bits[i] = 0
    THEN None ELSE Some(self.inner)

\* OptZero::into_option
into_option(self) == IF is_zero(self.inner) THEN None ELSE Some(self.inner)

\* OptZero::as_option: the same match, on a reference
as_option(self) == IF is_zero(self.inner) THEN None ELSE Some(self.inner)

\* the closures handed to map: |x| x, one that gives a zero value, one that
\* gives the last word of x as a ShouldNotBeZero<usize>
Closures == {"identity", "to_zero", "last_word"}

UsizeType == CHOOSE T \in IntTypes : T.name = "usize"

\* U, for a closure FnOnce(T) -> U
ClosureResult(f, T) == IF f = "identity" THEN T ELSE UsizeType

\* f(x)
Apply(f, x) ==
    CASE f = "identity" -> x
      [] f = "to_zero" -> zeroed(UsizeType)
      [] f = "last_word" -> Value(UsizeType, <<x.bits[x.ty.words]>>)

\* the result of map and the arguments f was called with
MapOutcome(r, calls) == [res |-> r, calls |-> calls]

\* f called before the match
map_CallsAlways(self, f) ==
    IF is_zero(self.inner)
    THEN MapOutcome(none(ClosureResult(f, self.inner.ty)), <<self.inner>>)
    ELSE MapOutcome(some(Apply(f, self.inner)), <<self.inner>>)

\* OptZero::map
map(self, f) ==
    IF is_zero(self.inner)
    THEN MapOutcome(none(ClosureResult(f, self.inner.ty)), << >>)
    ELSE MapOutcome(some(Apply(f, self.inner)), <<self.inner>>)

\* only the payloads compared
eq_PayloadOnly(self, other) == self.inner = other.inner

\* impl PartialEq for OptZero<T>; T's derived == compares the words
eq(self, other) ==
    (is_zero(self.inner) /\ is_zero(other.inner)) \/ (self.inner = other.inner)

\* the first word of the values of T that are drawn: an integer's zero, small
\* values, sign bit and all ones; a null, the lowest and the highest address
FirstWords(T) ==
    IF T.kind = "ShouldNotBeZero"
    THEN {0, 1, 2, 2 ^ (T.width - 1), 2 ^ T.width - 1}
    ELSE {0, 1, MaxAddr}

\* the second word: a length or a pointer's metadata
SecondWords == {0, 1, 3}

Values(T) ==
    IF T.words = 1
    THEN { Value(T, <<a>>) : a \in FirstWords(T) }
    ELSE { Value(T, <<a, m>>) : a \in FirstWords(T), m \in SecondWords }

Options(T) == {None} \cup { Some(x) : x \in Values(T) }

\* an OptZero<T> received from a foreign caller holds any pattern
OptZeros(T) == { OptZero(x) : x \in Values(T) }

OptZeroSome ==
    /\ Idle
    /\ \E T \in NotZeroableTypes : \E x \in Values(T) :
          Call("OptZero::some", [x |-> x], some(x))

OptZeroNone ==
    /\ Idle
    /\ \E T \in NotZeroableTypes : Call("OptZero::none", [T |-> T], none(T))

OptZeroFromOption ==
    /\ Idle
    /\ \E T \in NotZeroableTypes : \E opt \in Options(T) :
          Call("OptZero::from_option", [opt |-> opt, T |-> T], from_option(opt, T))

OptZeroMap ==
    /\ Idle
    /\ \E T \in NotZeroableTypes : \E self \in OptZeros(T), f \in Closures :
          /\ op' = "OptZero::map"
          /\ arg' = [self |-> self, f |-> f]
          /\ ret' = map(self, f).res
          /\ prev' = NoCall
          /\ vlog' = map(self, f).calls

\* only for T: PartialEq
OptZeroEq ==
    /\ Idle
    /\ \E T \in { U \in NotZeroableTypes : U.eq } : \E self \in OptZeros(T), other \in OptZeros(T) :
          Call("OptZero::eq", [self |-> self, other |-> other], Returns(eq(self, other)))

\* the calls that return an OptZero
OptZeroProducers == {"OptZero::some", "OptZero::none", "OptZero::from_option", "OptZero::map"}

\* a call on the value the previous call returned
CallOnRet(name, r) ==
    /\ op' = name
    /\ arg' = [self |-> ret]
    /\ ret' = r
    /\ prev' = [op |-> op, arg |-> arg]
    /\ vlog' = << >>

OptZeroIntoOption ==
    /\ op \in OptZeroProducers
    /\ CallOnRet("OptZero::into_option", into_option(ret))

OptZeroAsOption ==
    /\ op \in OptZeroProducers
    /\ CallOnRet("OptZero::as_option", as_option(ret))

NextOptions ==
    \/ OptZeroSome
    \/ OptZeroNone
    \/ OptZeroFromOption
    \/ OptZeroMap
    \/ OptZeroEq
    \/ OptZeroIntoOption
    \/ OptZeroAsOption

---------------------------------------------------------------------------
(* src/ffi/option.rs: COption<T>; src/process.rs: ProcessStdio.            *)

\* the width of u32, scaled as the word is
U32Bits == 10

\* `x as usize` for a u32 x
U32AsUsize(x) == x % (2 ^ WordBits)

\* `x as u32` for a usize x: the low bits
AsU32(x) == x % (2 ^ U32Bits)

\* enum COption<T>, #[repr(C, u8)]: the tag byte and the payload
COptionNone == [tag |-> 0]

COptionSome(x) == [tag |-> 1, payload |-> x]

\* a Some holding 0 taken for None
coption_from_ZeroIsNone(value) ==
    IF value.tag = "None" \/ value.val = 0 THEN COptionNone ELSE COptionSome(value.val)

\* impl From<Option<T>> for COption<T>
coption_from(value) ==
    IF value.tag = "None" THEN COptionNone ELSE COptionSome(value.val)

\* impl From<COption<T>> for Option<T>
option_from(value) ==
    IF value.tag = 0 THEN None ELSE Some(value.payload)

\* stdout.map(|u32| u32 as usize).into()
stdio_field(o) ==
    coption_from(IF o.tag = "None" THEN None ELSE Some(U32AsUsize(o.val)))

\* ProcessStdio::new
process_stdio_new(stdout, stdin, stderr) ==
    [stdout |-> stdio_field(stdout), stdin |-> stdio_field(stdin),
     stderr |-> stdio_field(stderr)]

\* match self.stdout { COption::Some(stdout) => Some(stdout as u32), COption::None => None }
stdio_into_rust(c) == IF c.tag = 1 THEN Some(AsU32(c.payload)) ELSE None

\* ProcessStdio::into_rust: (stdout, stdin, stderr)
into_rust(self) ==
    <<stdio_into_rust(self.stdout), stdio_into_rust(self.stdin), stdio_into_rust(self.stderr)>>

U32Samples == {0, 1, 2 ^ U32Bits - 2, 2 ^ U32Bits - 1}

OptionU32 == {None} \cup { Some(v) : v \in U32Samples }

\* Option<T> and COption<T> of integer payloads
OptionSamples == {None} \cup { Some(v) : v \in U32Samples \cup UsizeSamples }

COptionSamples == {COptionNone} \cup { COptionSome(v) : v \in U32Samples \cup UsizeSamples }

\* on an Option, or on the Option the conversion of a COption returned
COptionFrom ==
    \/ /\ Idle
       /\ \E o \in OptionSamples : Call("COption::from", [self |-> o], coption_from(o))
    \/ /\ op = "Option::from"
       /\ prev = NoCall
       /\ CallOnRet("COption::from", coption_from(ret))

OptionFrom ==
    \/ /\ Idle
       /\ \E c \in COptionSamples : Call("Option::from", [self |-> c], option_from(c))
    \/ /\ op = "COption::from"
       /\ prev = NoCall
       /\ CallOnRet("Option::from", option_from(ret))

ProcessStdioNew ==
    /\ Idle
    /\ \E stdout \in OptionU32, stdin \in OptionU32, stderr \in OptionU32 :
          Call("ProcessStdio::new",
               [stdout |-> stdout, stdin |-> stdin, stderr |-> stderr],
               process_stdio_new(stdout, stdin, stderr))

ProcessStdioIntoRust ==
    /\ op = "ProcessStdio::new"
    /\ CallOnRet("ProcessStdio::into_rust", into_rust(ret))

NextCOptions ==
    \/ COptionFrom
    \/ OptionFrom
    \/ ProcessStdioNew
    \/ ProcessStdioIntoRust

---------------------------------------------------------------------------
(* src/ffi/num.rs, src/ffi/ptr.rs: the constructors of ShouldNotBeZero<T>  *)
(* and FFINonNull<T>.                                                      *)

\* what an unchecked constructor does: it returns the wrapper, or it aborts
ReturnsWrapper(x) == [outcome |-> "Ret", wrapper |-> x]

Aborts(msg) == [outcome |-> "Panic", msg |-> msg]

\* the test left out: every value wrapped
should_not_be_zero_new_Unchecked(v, T) == Some(Value(T, <<v>>))

\* ShouldNotBeZero::new
should_not_be_zero_new(v, T) ==
    IF zeroable_is_zero(v) THEN None ELSE Some(Value(T, <<v>>))

\* ShouldNotBeZero::new_unchecked: the value wrapped, with no test in any build
should_not_be_zero_new_unchecked(v, T) == ReturnsWrapper(Value(T, <<v>>))

\* ShouldNotBeZero::value
value(self) == self.bits[1]

\* impl From<NonZero<$ty>> for ShouldNotBeZero<$ty>: ShouldNotBeZero(value.into())
should_not_be_zero_from(n, T) == Value(T, <<n>>)

\* FFINonNull::new, ptr being the words of the pointer
ffi_non_null_new(ptr, T) ==
    IF is_null(ptr[1]) THEN None ELSE Some(Value(T, ptr))

\* FFINonNull::new_unchecked: debug_assert!(!ptr.is_null(), ..) is compiled
\* only with debug assertions
ffi_non_null_new_unchecked(ptr, T, debug_assertions) ==
    IF debug_assertions /\ is_null(ptr[1])
    THEN Aborts("attempt to create an instance of FFINonNull with a null value")
    ELSE ReturnsWrapper(Value(T, ptr))

\* the values of NonZero<$ty>
NonZeros(T) == FirstWords(T) \ {0}

\* the raw pointers *mut T, as their words
RawPtrs(T) == { x.bits : x \in Values(T) }

ShouldNotBeZeroNew ==
    /\ Idle
    /\ \E T \in IntTypes : \E v \in FirstWords(T) :
          Call("ShouldNotBeZero::new", [value |-> v, T |-> T], should_not_be_zero_new(v, T))

ShouldNotBeZeroNewUnchecked ==
    /\ Idle
    /\ \E T \in IntTypes : \E v \in FirstWords(T) :
          Call("ShouldNotBeZero::new_unchecked", [value |-> v, T |-> T],
               should_not_be_zero_new_unchecked(v, T))

ShouldNotBeZeroFrom ==
    /\ Idle
    /\ \E T \in IntTypes : \E n \in NonZeros(T) :
          Call("ShouldNotBeZero::from", [value |-> n, T |-> T], should_not_be_zero_from(n, T))

\* value() of the wrapper new or from returned
ShouldNotBeZeroValue ==
    \/ /\ op = "ShouldNotBeZero::new"
       /\ ret.tag = "Some"
       /\ op' = "ShouldNotBeZero::value"
       /\ arg' = [self |-> ret.val]
       /\ ret' = Returns(value(ret.val))
       /\ prev' = [op |-> op, arg |-> arg]
       /\ vlog' = << >>
    \/ /\ op = "ShouldNotBeZero::from"
       /\ CallOnRet("ShouldNotBeZero::value", Returns(value(ret)))

FFINonNullNew ==
    /\ Idle
    /\ \E T \in PtrTypes : \E p \in RawPtrs(T) :
          Call("FFINonNull::new", [ptr |-> p, T |-> T], ffi_non_null_new(p, T))

FFINonNullNewUnchecked ==
    /\ Idle
    /\ \E T \in PtrTypes : \E p \in RawPtrs(T), debug_assertions \in BOOLEAN :
          Call("FFINonNull::new_unchecked",
               [ptr |-> p, T |-> T, debug_assertions |-> debug_assertions],
               ffi_non_null_new_unchecked(p, T, debug_assertions))

\* NonZero::new_unchecked(n), NonZero::get: a NonZero is the integer it holds
non_zero_new_unchecked(n) == n
get(size) == size

\* the conversion without the match on is_zero
option_non_zero_from_Unfiltered(optzero) == Some(non_zero_new_unchecked(value(optzero.inner)))

\* impl From<OptZero<ShouldNotBeZero<$ty>>> for Option<NonZero<$ty>>
option_non_zero_from(optzero) ==
    IF into_option(optzero).tag = "Some"
    THEN Some(non_zero_new_unchecked(value(into_option(optzero).val)))
    ELSE None

\* the custom_stack_size field RawTSpawnConfig::new stores
custom_stack_size_field(custom_stack_size) ==
    IF custom_stack_size.tag = "Some"
    THEN some(should_not_be_zero_new_unchecked(get(custom_stack_size.val), UsizeType).wrapper)
    ELSE none(UsizeType)

\* Option<NonZero<usize>>
OptionNonZeroUsize == {None} \cup { Some(n) : n \in NonZeros(UsizeType) }

RawTSpawnConfigNew ==
    /\ Idle
    /\ \E custom_stack_size \in OptionNonZeroUsize :
          Call("RawTSpawnConfig::new", [custom_stack_size |-> custom_stack_size],
               custom_stack_size_field(custom_stack_size))

\* the conversion of the OptZero the previous call returned
OptionNonZeroFrom ==
    /\ op \in OptZeroProducers \cup {"RawTSpawnConfig::new"}
    /\ ret.inner.ty \in IntTypes
    /\ op' = "Option<NonZero>::from"
    /\ arg' = [optzero |-> ret]
    /\ ret' = option_non_zero_from(ret)
    /\ prev' = [op |-> op, arg |-> arg]
    /\ vlog' = <<>>

NextNonZero ==
    \/ ShouldNotBeZeroNew
    \/ ShouldNotBeZeroNewUnchecked
    \/ ShouldNotBeZeroFrom
    \/ ShouldNotBeZeroValue
    \/ FFINonNullNew
    \/ FFINonNullNewUnchecked
    \/ RawTSpawnConfigNew
    \/ OptionNonZeroFrom

---------------------------------------------------------------------------
(***************************************************************************)
(* src/sockets.rs: the flags of a socket message, a u32 used as a bit set   *)
(***************************************************************************)

\* self.0 & other.0 on u32
RECURSIVE u32_bitand(_, _)
u32_bitand(a, b) ==
    IF a = 0 \/ b = 0
    THEN 0
    ELSE (a % 2) * (b % 2) + 2 * u32_bitand(a \div 2, b \div 2)

\* self.0 | rhs.0 on u32
u32_bitor(a, b) == a + b - u32_bitand(a, b)

NONE == 0

DONT_WAIT == 1

\* a flag with a bit of its own
PEEK_OwnBit == DONT_WAIT + DONT_WAIT

PEEK == 1

\* SockMsgFlags::contains
contains(self, other) == u32_bitand(self, other) = other

\* SockMsgFlags::from_bits_retaining
from_bits_retaining(bits) == bits

\* <SockMsgFlags as BitOr>::bitor
bitor(self, rhs) == u32_bitor(self, rhs)

\* the associated constants by name
SockMsgFlagsConsts == [NONE |-> NONE, DONT_WAIT |-> DONT_WAIT, PEEK |-> PEEK]

\* every bit pattern of the flags
SockMsgFlagsBits == 0 .. 2 ^ U32Bits - 1

SockMsgFlagsContains ==
    /\ Idle
    /\ \E bits \in SockMsgFlagsBits, flag \in DOMAIN SockMsgFlagsConsts :
          Call("SockMsgFlags::contains",
               [self |-> from_bits_retaining(bits), other |-> SockMsgFlagsConsts[flag], flag |-> flag],
               Returns(contains(from_bits_retaining(bits), SockMsgFlagsConsts[flag])))

SockMsgFlagsBitOr ==
    /\ Idle
    /\ \E bits \in SockMsgFlagsBits, flag \in DOMAIN SockMsgFlagsConsts :
          Call("SockMsgFlags::bitor",
               [self |-> from_bits_retaining(bits), rhs |-> SockMsgFlagsConsts[flag], flag |-> flag],
               Returns(bitor(from_bits_retaining(bits), SockMsgFlagsConsts[flag])))

NextSockets ==
    \/ SockMsgFlagsContains
    \/ SockMsgFlagsBitOr

(***************************************************************************)
(* src/syscalls.rs: the syscall numbers and the conversion from a u16       *)
(***************************************************************************)

\* enum SyscallTable, #[repr(u16)]: each declared syscall with its number,
\* in the order of the source
SyscallTable ==
    [ SysPExit |-> 0, SysTYield |-> 1, SysFSOpenAll |-> 2,
      SysFSOpen |-> 25, SysFSRemovePath |-> 28, SysFDirIterOpen |-> 8,
      SysRDestroy |-> 5, SysDirIterClose |-> 9, SysDirIterNext |-> 10,
      SysIOWrite |-> 3, SysIORead |-> 4, SysIOPoll |-> 45,
      SysFSCreate |-> 6, SysFSCreateDir |-> 7, SysIOSync |-> 16,
      SysIOTruncate |-> 17, SysIOCommand |-> 12, SysRClone |-> 26,
      SysFSize |-> 22, SysFAttrs |-> 24, SysFGetDirEntry |-> 23,
      SysPCHDir |-> 14, SysPGetCWD |-> 15, SysPSbrk |-> 18,
      SysPSpawn |-> 19, SysTSpawn |-> 29, SysTExit |-> 30,
      SysTSleep |-> 31, SysPWait |-> 11, SysTWait |-> 32,
      SysPTryCleanUp |-> 33, SysTFutWait |-> 34, SysTFutWake |-> 35,
      SysShutdown |-> 20, SysReboot |-> 21, SysUptime |-> 27,
      SysMemMap |-> 36, SysMemShmCreate |-> 42, SysMemShmOpen |-> 43,
      SysSockCreate |-> 37, SysSockBind |-> 38, SysSockListen |-> 39,
      SysSockAccept |-> 40, SysSockConnect |-> 41, SysSockSendTo |-> 46,
      SysSockRecvFrom |-> 47, SysVTTYAlloc |-> 44 ]

NEXT_SYSCALL_NUM == 48

Syscalls == DOMAIN SyscallTable

\* what SyscallTable::try_from gives back: a value of the enum with the
\* number it is stored as, or the unit error
SyscallOk(s, n) == [verdict |-> "Ok", syscall |-> s, number |-> n]
SyscallErr == [verdict |-> "Err"]

\* core::mem::transmute::<u16, SyscallTable>(value): the declared syscall with
\* that number; for a number no variant declares the behaviour is undefined,
\* and the value comes out holding that number, named by no variant or
\* taken for any of the declared ones
syscall_transmute(v) ==
    IF \E s \in Syscalls : SyscallTable[s] = v
    THEN { SyscallOk(s, v) : s \in { t \in Syscalls : SyscallTable[t] = v } }
    ELSE { SyscallOk(s, v) : s \in Syscalls \cup {"undeclared"} }

\* <SyscallTable as TryFrom<u16>>::try_from: the outcomes the call can have
syscall_try_from(v) ==
    IF v < NEXT_SYSCALL_NUM
    THEN syscall_transmute(v)
    ELSE { SyscallErr }

\* numbers offered to the conversion
SyscallNumberSamples ==
    (0 .. NEXT_SYSCALL_NUM + Window) \cup ((2^U16Bits - 1 - Window) .. (2^U16Bits - 1))

SyscallTableTryFrom ==
    /\ Idle
    /\ \E v \in SyscallNumberSamples : \E r \in syscall_try_from(v) :
          Call("SyscallTable::try_from", [syscall_number |-> v], r)

NextSyscalls ==
    \/ SyscallTableTryFrom

(***************************************************************************)
(* src/fs.rs, src/lib.rs: the directory entry record and its constructor    *)
(***************************************************************************)

MAX_NAME_LENGTH == 128

\* usize::min
usize_min(a, b) == IF a <= b THEN a ELSE b

\* dst.copy_from_slice(src): panics unless the two lengths are equal, and
\* otherwise leaves src's bytes in dst
copy_from_slice(dst, src) ==
    IF Len(dst) # Len(src)
    THEN Aborts("source slice length does not match destination slice length")
    ELSE [outcome |-> "Ret", bytes |-> src]

\* what DirEntry::new gives back when it returns
ReturnsEntry(attrs, name_length, name_bytes) ==
    [outcome |-> "Ret",
     entry |-> [attrs |-> attrs, name_length |-> name_length, name |-> name_bytes]]

\* DirEntry::new; name is the text's bytes
dir_entry_new(name, attrs) ==
    LET name_length == usize_min(Len(name), MAX_NAME_LENGTH)
        name_bytes == [i \in 1 .. MAX_NAME_LENGTH |-> 0]
        copied == copy_from_slice(SubSeq(name_bytes, 1, name_length), name)
    IN  IF copied.outcome = "Panic"
        THEN copied
        ELSE ReturnsEntry(attrs, name_length,
                          copied.bytes \o SubSeq(name_bytes, name_length + 1, MAX_NAME_LENGTH))

\* names offered to the constructor: one of every length up to a little
\* over the limit, of the bytes of 'a' and 'b'
NameSamples == { [i \in 1 .. n |-> 97 + (i % 2)] : n \in 0 .. MAX_NAME_LENGTH + Window }

\* enum FSObjectType and struct FileAttr { kind, size }
FSObjectType == {"File", "Directory", "Device"}
FileAttrs == [kind : FSObjectType, size : {0, UsizeMax}]

DirEntryNew ==
    /\ Idle
    /\ \E name \in NameSamples, attrs \in FileAttrs :
          Call("DirEntry::new", [name |-> name, attrs |-> attrs], dir_entry_new(name, attrs))

NextFs ==
    \/ DirEntryNew

Init ==
    /\ op = "none"
    /\ arg = 0
    /\ ret = Returns(0)
    /\ prev = NoCall
    /\ vlog = << >>

Next ==
    \/ NextErrors
    \/ NextSlices
    \/ NextOptions
    \/ NextCOptions
    \/ NextNonZero
    \/ NextSockets
    \/ NextSyscalls
    \/ NextFs

Spec == Init /\ [][Next]_vars

---------------------------------------------------------------------------
(* Properties of the ErrorStatus catalogue and of the SysResult word.      *)

\* the codes of the declared kinds, and the largest of them
DeclaredCodes == { Discriminant(k) : k \in ErrorKinds }

LargestCode == CHOOSE m \in DeclaredCodes : \A c \in DeclaredCodes : c <= m

\* the frame is into_result applied to what the constructor `ctor` returned
DecodedFrom(ctor) == op = "into_result" /\ prev.op = ctor

\* C1: for every payload p with 0 <= p <= isize::MAX, try_ok(p) succeeds with
\* the word p, and that word decodes with into_result() to Ok(p).
C1_TryOkRoundTrip ==
    /\ (op = "try_ok" /\ arg <= IsizeMax) => ret = RustOk(arg)
    /\ (DecodedFrom("try_ok") /\ prev.arg <= IsizeMax) => ret = RustOk(prev.arg)

C1_Witness ==
    DecodedFrom("try_ok") /\ prev.arg = IsizeMax /\ ret = RustOk(IsizeMax)

\* C2: for every defined error kind k, err(k) is the word -(numeric code of k)
\* and err(k).into_result() is Err(k).
C2_ErrRoundTrip ==
    /\ op = "err" => ret = Returns(-ErrorStatus[arg])
    /\ DecodedFrom("err") => ret = RustErr(prev.arg)

C2_Witness ==
    DecodedFrom("err") /\ prev.arg = "NotBound" /\ arg.word = -42 /\ ret = RustErr("NotBound")

\* C3: into_result() is total: for every word, the most negative one included,
\* it returns; a non-negative word gives Ok and a negative word gives Err.
C3_IntoResultTotal ==
    op = "into_result" =>
        /\ ret.tag \in {"Ok", "Err"}
        /\ arg.word >= 0 => ret.tag = "Ok"
        /\ arg.word < 0 => ret.tag = "Err"

\* the kind a magnitude stands for: the declared kind with that code, else Unknown
KindOfMagnitude(m) ==
    IF m \in DeclaredCodes
    THEN CHOOSE k \in ErrorKinds : Discriminant(k) = m
    ELSE "Unknown"

\* C4: for every negative word w, into_result() gives Err of the kind whose
\* code is the magnitude -w, and Err(Unknown) when -w is not in 1..=N, for
\* magnitudes beyond 16 bits too.  (Whether it returns at all is C3.)
C4_NegativeDecodesByMagnitude ==
    (op = "into_result" /\ arg.word < 0 /\ ret.tag # "Panic") =>
        ret = RustErr(KindOfMagnitude(-arg.word))

\* C5: for every payload p > isize::MAX, try_ok(p) fails and gives no word,
\* and so does try_from_result(Ok(p)); try_from_result(Err(k)) succeeds with
\* the word of err(k).
C5_OversizedPayloadRejected ==
    /\ (op = "try_ok" /\ arg > IsizeMax) => (ret = RustErr(Unit) /\ ~HoldsSysResult)
    /\ (op = "try_from_result" /\ arg.tag = "Ok" /\ arg.val > IsizeMax) =>
           (ret = RustErr(Unit) /\ ~HoldsSysResult)
    /\ (op = "try_from_result" /\ arg.tag = "Err") => ret = RustOk(-ErrorStatus[arg.kind])

C5_Witness ==
    op = "try_from_result" /\ arg = RustOk(IsizeMax + 1) /\ ret = RustErr(Unit)

\* the frame is a call of one of the two panicking Ok constructors on payload p
OkCtorOn(p) ==
    \/ op = "ok" /\ arg = p
    \/ op = "from_result" /\ arg = RustOk(p)

\* C6: ok(p) gives the word p (as try_ok does) when p <= isize::MAX and panics
\* when p > isize::MAX; it never returns a negative word.  The same holds for
\* From<Result<usize, ErrorStatus>> on Ok(p).
C6_OkPanicsNeverWraps ==
    \A p \in UsizeSamples :
        OkCtorOn(p) =>
            /\ p <= IsizeMax => ret = Returns(p)
            /\ p > IsizeMax => ret.tag = "Panic"
            /\ ~(ret.tag = "Ret" /\ ret.val < 0)

C6_Witness ==
    op = "from_result" /\ arg = RustOk(UsizeMax) /\ ret.tag = "Panic"

\* C7: from_u16 is a total decode: a code c in 1..=N gives the kind whose code
\* is c (so from_u16(numeric(k)) = k), c = 0 or c > N gives Unknown; and
\* try_from_u16 is Ok exactly for 1 <= c <= N.
C7_FromU16Total ==
    /\ op = "from_u16" =>
          /\ ret.tag = "Ret"
          /\ \A k \in ErrorKinds : arg = ErrorStatus[k] => ret.kind = k
          /\ (arg = 0 \/ arg > LargestCode) => ret.kind = "Unknown"
    /\ op = "try_from_u16" =>
          /\ ret.tag = "Ok" <=> (1 <= arg /\ arg <= LargestCode)
          /\ ret.tag = "Ok" => ErrorStatus[ret.kind] = arg
          /\ ret.tag # "Ok" => ret = RustErr(Unit)

C7_Witness ==
    op = "from_u16" /\ arg = LargestCode + 1 /\ ret.kind = "Unknown"

---------------------------------------------------------------------------
(* Properties of buffer validation.                                        *)

\* C8: buffer validation checks in strict order and returns the first failure:
\* null gives PtrIsNull whatever the rest; non-null misaligned gives
\* PtrNotAligned whatever the length and validator; non-null aligned with a
\* length above isize::MAX gives LenTooLarge whatever the validator; Other is
\* given exactly when the three checks pass and the validator rejects;
\* otherwise the result is Ok with the record's pointer and length.
C8_ValidationOrder ==
    op = "try_as_slice_mut_custom" =>
        LET s == arg.self
            null == s.ptr = 0
            misaligned == s.ptr % arg.T.align # 0
            toolong == s.len > IsizeMax
            rejected == s.ptr \notin arg.validator
        IN  /\ null => ret = SliceErr("PtrIsNull")
            /\ (~null /\ misaligned) => ret = SliceErr("PtrNotAligned")
            /\ (~null /\ ~misaligned /\ toolong) => ret = SliceErr("LenTooLarge")
            /\ ret = SliceErr("Other") <=> (~null /\ ~misaligned /\ ~toolong /\ rejected)
            /\ (~null /\ ~misaligned /\ ~toolong /\ ~rejected) => ret = SliceOk(s.ptr, s.len)

\* a misaligned pointer, an oversized length and a rejecting validator at once
C8_Witness ==
    /\ op = "try_as_slice_mut_custom"
    /\ arg.self = RawSlice(2, IsizeMax + 1)
    /\ arg.T = u64
    /\ 2 \notin arg.validator
    /\ ret = SliceErr("PtrNotAligned")

NestedOps == {"try_into_slices_ptr_mut", "try_into_str_slices_mut"}

\* what validating the outer record alone gives
OuterResult == try_as_slice_mut_custom(arg.self, SliceElem, arg.validator).res

\* what validating element i of the backing array alone gives
InnerResult(i) ==
    IF op = "try_into_slices_ptr_mut"
    THEN try_as_slice_mut_custom(arg.backing[i], arg.T, arg.validator).res
    ELSE try_as_str_mut_custom(arg.backing[i], arg.validator).res

InvalidInner == { i \in 1 .. Len(arg.backing) : InnerResult(i).tag = "Err" }

Lowest(S) == CHOOSE i \in S : \A j \in S : i <= j

\* C9: nested validation succeeds only if the outer buffer and every inner
\* element pass, and (the outer buffer passing) it fails with the error of the
\* lowest-index invalid inner element.
C9_NestedFirstInvalid ==
    op \in NestedOps =>
        /\ ret.tag = "Ok" <=> (OuterResult.tag = "Ok" /\ InvalidInner = {})
        /\ (OuterResult.tag = "Ok" /\ InvalidInner # {}) =>
               ret = InnerResult(Lowest(InvalidInner))

\* two invalid elements that fail differently, the second with the error the
\* first would not give
C9_Witness ==
    /\ op = "try_into_slices_ptr_mut"
    /\ OuterResult.tag = "Ok"
    /\ InvalidInner = {1, 2}
    /\ InnerResult(1).kind # InnerResult(2).kind
    /\ ret = InnerResult(1)

\* C10: whenever validation of a buffer of element type T succeeds, the
\* element count is at most isize::MAX and the byte extent (count times
\* size_of::<T>()) is at most isize::MAX, for every element size.
C10_ByteExtentBounded ==
    (op = "try_as_slice_mut_custom" /\ ret.tag = "Ok") =>
        /\ ret.len <= IsizeMax
        /\ ret.len * arg.T.size <= IsizeMax

---------------------------------------------------------------------------
(* Properties of the constructors, of text validation, of the entry point  *)
(* variants and of the failure codes.                                      *)

\* C11: for every local slice s, the empty one included, from_slice(s)
\* validated with try_as_slice (the always-true validator) succeeds with the
\* pointer and length of s; the same for from_str followed by try_as_str.
C11_LocalRoundTrip ==
    /\ (op = "try_as_slice" /\ prev.op = "from_slice") =>
           ret = SliceOk(prev.arg.slice.ptr, prev.arg.slice.len)
    /\ (op = "try_as_str" /\ prev.op = "from_str") =>
           ret = SliceOk(prev.arg.slice.ptr, prev.arg.slice.len)

\* the round trip of an empty slice of an aligned element type
C11_Witness ==
    /\ op = "try_as_slice"
    /\ prev.op = "from_slice"
    /\ prev.arg.slice.len = 0
    /\ prev.arg.T = u64
    /\ ret = SliceOk(8, 0)

\* the reason the four buffer checks give for a byte buffer, "-" when they pass
ByteBufferFailure(s, validator) ==
    IF s.ptr = 0 THEN "PtrIsNull"
    ELSE IF s.len > IsizeMax THEN "LenTooLarge"
    ELSE IF s.ptr \notin validator THEN "Other"
    ELSE "-"

\* the ranges of Bytes that hold well-formed UTF-8: "A", U+00E9, "A" U+00E9, "B"
WellFormedText(s) ==
    s.len = 0 \/ <<s.ptr, s.len>> \in {<<1, 1>>, <<2, 2>>, <<1, 3>>, <<5, 1>>}

\* C12: text validation runs the four buffer checks first and the UTF-8
\* check only after they pass: a buffer failure is returned as
\* InvalidSliceError(reason) even when the bytes are malformed too, and
\* Utf8Error is returned exactly when the buffer checks pass and the bytes
\* are not well-formed UTF-8.
C12_BufferChecksBeforeUtf8 ==
    op = "try_as_str_mut_custom" =>
        LET failure == ByteBufferFailure(arg.self, arg.validator)
        IN  /\ failure # "-" => ret = SliceErr(StrInvalidSliceError(failure))
            /\ (failure = "-" /\ ~WellFormedText(arg.self)) => ret = SliceErr(Utf8Error)
            /\ (failure = "-" /\ WellFormedText(arg.self)) =>
                   ret = SliceOk(arg.self.ptr, arg.self.len)

\* malformed bytes behind a pointer the validator rejects
C12_Witness ==
    /\ op = "try_as_str_mut_custom"
    /\ arg.self = RawSlice(4, 1)
    /\ 4 \notin arg.validator
    /\ ret = SliceErr(StrInvalidSliceError("Other"))

\* every address of the address space: what an always-true validator accepts
AllAddresses == 0 .. MaxAddr

\* C13: the immutable variants give the outcome of the mutable variants for
\* every buffer and validator, and the validator-less variants give the
\* outcome of the custom variant with an always-true validator, hence never
\* Other.
C13_VariantsAgree ==
    /\ op = "try_as_slice_custom" =>
           ret = try_as_slice_mut_custom(arg.self, arg.T, arg.validator).res
    /\ op \in {"try_as_slice", "try_as_slice_mut"} =>
           /\ ret = try_as_slice_mut_custom(arg.self, arg.T, AllAddresses).res
           /\ ret.tag = "Err" => ret.kind # "Other"
    /\ op = "try_as_str_custom" =>
           ret = try_as_str_mut_custom(arg.self, arg.validator).res
    /\ op \in {"try_as_str", "try_as_str_mut"} =>
           /\ ret = try_as_str_mut_custom(arg.self, AllAddresses).res
           /\ ret.tag = "Err" => ret.kind # StrInvalidSliceError("Other")

\* the immutable variant reports the validator's refusal as the mutable one does
C13_Witness ==
    /\ op = "try_as_slice_custom"
    /\ arg.self = RawSlice(4, 1)
    /\ arg.T = u32
    /\ 4 \notin arg.validator
    /\ ret = SliceErr("Other")

\* the outcome code of each buffer validation failure
SliceFailureCode ==
    [PtrIsNull |-> "InvalidPtr", PtrNotAligned |-> "InvalidPtr",
     LenTooLarge |-> "StrTooLong", Other |-> "InvalidPtr"]

\* C14: PtrIsNull and PtrNotAligned map to InvalidPtr, LenTooLarge to
\* StrTooLong, Utf8Error to InvalidStr, a text error wrapping a buffer error
\* to the code of that buffer error, and Other to InvalidPtr.
C14_FailureCodes ==
    /\ op = "slice_into_err" => ret = ReturnsKind(SliceFailureCode[arg])
    /\ op = "str_into_err" =>
           ret = ReturnsKind(IF arg = Utf8Error THEN "InvalidStr"
                             ELSE SliceFailureCode[arg.inner])

\* an oversized inner text of a nested buffer reported as StrTooLong
C14_Witness ==
    /\ op = "str_into_err"
    /\ prev.op = "try_into_str_slices_mut"
    /\ arg = StrInvalidSliceError("LenTooLarge")
    /\ ret = ReturnsKind("StrTooLong")

---------------------------------------------------------------------------
(* Properties of OptZero.                                                  *)

\* a zero value: an integer 0, a null address (whatever the length or the
\* metadata beside it)
ZeroValued(x) == x.bits[1] = 0

\* the all-zero bit pattern
AllZero(x) == \A i \in 1 .. Len(x.bits) : x.bits[i] = 0

\* the previous call was from_option(None) or none()
MadeAbsent ==
    \/ prev.op = "OptZero::none"
    \/ prev.op = "OptZero::from_option" /\ prev.arg.opt.tag = "None"

\* the previous call was from_option(Some(v)) with v not zero
MadeFromNonZero ==
    /\ prev.op = "OptZero::from_option"
    /\ prev.arg.opt.tag = "Some"
    /\ ~ZeroValued(prev.arg.opt.val)

\* C15: for every v that is not zero, from_option(Some(v)).into_option() is
\* Some(v), and as_option gives the same presence answer.
C15_OptZeroRoundTrip ==
    /\ (op = "OptZero::into_option" /\ MadeFromNonZero) => ret = Some(prev.arg.opt.val)
    /\ (op = "OptZero::as_option" /\ MadeFromNonZero) => ret = Some(prev.arg.opt.val)

\* the round trip of an empty slice behind a non-null pointer
C15_Witness ==
    /\ op = "OptZero::into_option"
    /\ MadeFromNonZero
    /\ prev.arg.T.kind = "Slice"
    /\ prev.arg.opt.val.bits = <<1, 0>>
    /\ ret = prev.arg.opt

\* C16: from_option(None) and none() hold the all-zero bit pattern and
\* decode to None, for every implementor of NotZeroable.
C16_AbsentIsAllZero ==
    /\ op = "OptZero::none" => (ret.inner.ty = arg.T /\ AllZero(ret.inner))
    /\ (op = "OptZero::from_option" /\ arg.opt.tag = "None") =>
           (ret.inner.ty = arg.T /\ AllZero(ret.inner))
    /\ (op \in {"OptZero::into_option", "OptZero::as_option"} /\ MadeAbsent) =>
           ret.tag = "None"

\* from_option(None) of a pointer to an unsized type decoded
C16_Witness ==
    /\ op = "OptZero::into_option"
    /\ prev.op = "OptZero::from_option"
    /\ prev.arg.opt.tag = "None"
    /\ prev.arg.T.kind = "FFINonNull"
    /\ prev.arg.T.words = 2
    /\ arg.self.inner.bits = <<0, 0>>
    /\ ret.tag = "None"

\* C17: some(z).into_option() is None whenever z is zero; for Slice and Str
\* that is every record with a null pointer, whatever its length.
C17_SomeOfZeroIsAbsent ==
    (op = "OptZero::into_option" /\ prev.op = "OptZero::some") =>
        /\ ZeroValued(prev.arg.x) => ret.tag = "None"
        /\ (prev.arg.x.ty.kind \in {"Slice", "Str"} /\ prev.arg.x.bits[1] = 0) =>
               ret.tag = "None"

\* a Str of length 3 behind a null pointer
C17_Witness ==
    /\ op = "OptZero::into_option"
    /\ prev.op = "OptZero::some"
    /\ prev.arg.x.ty.kind = "Str"
    /\ prev.arg.x.bits = <<0, 3>>
    /\ ret.tag = "None"

\* C18: OptZero equality is true when both are absent, true when both are
\* present with equal payloads, false when one is absent and the other
\* present, false when both are present with different payloads; it is
\* reflexive, symmetric and transitive over all bit patterns.
C18_EqualityIsEquivalence ==
    op = "OptZero::eq" =>
        LET a == arg.self
            b == arg.other
            pa == ~ZeroValued(a.inner)
            pb == ~ZeroValued(b.inner)
        IN  /\ (~pa /\ ~pb) => ret.val = TRUE
            /\ (pa /\ pb /\ a.inner.bits = b.inner.bits) => ret.val = TRUE
            /\ (pa # pb) => ret.val = FALSE
            /\ (pa /\ pb /\ a.inner.bits # b.inner.bits) => ret.val = FALSE
            /\ eq(a, a)
            /\ ret.val = eq(b, a)
            /\ \A c \in OptZeros(a.inner.ty) : (ret.val /\ eq(b, c)) => eq(a, c)

\* two null pointers to an unsized type with different metadata
C18_Witness ==
    /\ op = "OptZero::eq"
    /\ arg.self.inner.bits = <<0, 0>>
    /\ arg.other.inner.bits = <<0, 3>>
    /\ ret.val = TRUE

\* C19: map(f) calls f exactly once when the value is present and returns
\* some(f(x)), does not call f when it is absent and returns none(); the
\* result decodes as absent whenever the input was absent or f(x) is zero.
C19_MapCallsOnce ==
    /\ op = "OptZero::map" =>
           IF ZeroValued(arg.self.inner)
           THEN vlog = << >> /\ AllZero(ret.inner)
           ELSE vlog = <<arg.self.inner>> /\ ret = OptZero(Apply(arg.f, arg.self.inner))
    /\ (/\ op \in {"OptZero::into_option", "OptZero::as_option"}
        /\ prev.op = "OptZero::map"
        /\ \/ ZeroValued(prev.arg.self.inner)
           \/ ZeroValued(Apply(prev.arg.f, prev.arg.self.inner))) =>
           ret.tag = "None"

\* a present slice mapped to its length, which is zero
C19_Witness ==
    /\ op = "OptZero::into_option"
    /\ prev.op = "OptZero::map"
    /\ prev.arg.f = "last_word"
    /\ prev.arg.self.inner.ty.kind = "Slice"
    /\ prev.arg.self.inner.bits = <<1, 0>>
    /\ ret.tag = "None"

---------------------------------------------------------------------------
(* Properties of COption and ProcessStdio.                                 *)

\* C20: the conversions between COption<T> and Option<T> are total and
\* lossless in both directions, Some(0) included, with tag 0 for absent and
\* tag 1 for present; ProcessStdio::new(a, b, c).into_rust() is (a, b, c)
\* for all Option<u32> values.
C20_COptionLossless ==
    /\ op = "COption::from" =>
           /\ arg.self.tag = "None" => ret = [tag |-> 0]
           /\ arg.self.tag = "Some" => ret = [tag |-> 1, payload |-> arg.self.val]
    /\ op = "Option::from" =>
           /\ arg.self.tag = 0 => ret = [tag |-> "None"]
           /\ arg.self.tag = 1 => ret = [tag |-> "Some", val |-> arg.self.payload]
    /\ (op \in {"COption::from", "Option::from"} /\ prev.op \in {"COption::from", "Option::from"}) =>
           ret = prev.arg.self
    /\ (op = "ProcessStdio::into_rust" /\ prev.op = "ProcessStdio::new") =>
           ret = <<prev.arg.stdout, prev.arg.stdin, prev.arg.stderr>>

\* a ProcessStdio of Some(0), None and the largest u32, read back
C20_Witness ==
    /\ op = "ProcessStdio::into_rust"
    /\ prev.op = "ProcessStdio::new"
    /\ prev.arg.stdout = [tag |-> "Some", val |-> 0]
    /\ prev.arg.stdin = [tag |-> "None"]
    /\ prev.arg.stderr = [tag |-> "Some", val |-> 2 ^ U32Bits - 1]
    /\ arg.self.stdout.tag = 1
    /\ arg.self.stdin.tag = 0
    /\ ret = <<prev.arg.stdout, prev.arg.stdin, prev.arg.stderr>>

---------------------------------------------------------------------------
(* Properties of the non-zero wrappers.                                    *)

\* C21: ShouldNotBeZero::new(v) is None exactly when v is zero and otherwise
\* Some wrapping v unchanged (value() = v); every ShouldNotBeZero obtained
\* from new or from a NonZero holds a non-zero value; FFINonNull::new(p) is
\* None exactly when p is null.
C21_CheckedConstructors ==
    /\ op = "ShouldNotBeZero::new" =>
           /\ ret.tag = "None" <=> arg.value = 0
           /\ arg.value # 0 => ret = [tag |-> "Some", val |-> [ty |-> arg.T, bits |-> <<arg.value>>]]
    /\ op = "ShouldNotBeZero::value" =>
           /\ ret.val = prev.arg.value
           /\ ret.val # 0
    /\ op = "FFINonNull::new" =>
           /\ ret.tag = "None" <=> arg.ptr[1] = 0
           /\ arg.ptr[1] # 0 => ret = [tag |-> "Some", val |-> [ty |-> arg.T, bits |-> arg.ptr]]

\* the value of a wrapper that new made of an integer with only the sign bit set
C21_Witness ==
    /\ op = "ShouldNotBeZero::value"
    /\ prev.op = "ShouldNotBeZero::new"
    /\ prev.arg.T.name = "i8"
    /\ prev.arg.value = 128
    /\ ret.val = 128

\* C22: constructing a non-zero wrapper from zero through the unchecked
\* path is fatal at the construction site: ShouldNotBeZero::new_unchecked(0)
\* and FFINonNull::new_unchecked(null) abort rather than return a wrapper
\* holding the zero pattern.
C22_UncheckedZeroIsFatal ==
    /\ (op = "ShouldNotBeZero::new_unchecked" /\ arg.value = 0) => ret.outcome = "Panic"
    /\ (op = "FFINonNull::new_unchecked" /\ arg.ptr[1] = 0) => ret.outcome = "Panic"

---------------------------------------------------------------------------
(* Properties of the catalogue as an enumeration.                          *)

\* C23: the error kinds form a dense enumeration: their codes are pairwise
\* distinct and are exactly 1..MAX with no gap, MAX being the code of the
\* last declared kind (NotBound = 0x2A = 42); so every code try_from_u16
\* accepts is the discriminant of a declared kind.
C23_DenseCatalogue ==
    op = "try_from_u16" =>
        /\ \A j \in ErrorKinds, k \in ErrorKinds : j # k => ErrorStatus[j] # ErrorStatus[k]
        /\ ErrorStatus["NotBound"] = 42
        /\ ErrorStatusMAX = ErrorStatus["NotBound"]
        /\ { ErrorStatus[k] : k \in ErrorKinds } = 1 .. ErrorStatusMAX
        /\ ret.tag = "Ok" =>
               /\ ret.kind \in ErrorKinds
               /\ ErrorStatus[ret.kind] = arg
        /\ ret.tag = "Ok" <=> arg \in { ErrorStatus[k] : k \in ErrorKinds }

\* the last declared kind decoded from its code
C23_Witness ==
    op = "try_from_u16" /\ arg = 42 /\ ret.tag = "Ok" /\ ret.kind = "NotBound"

---------------------------------------------------------------------------
(* Properties of the validator invocations and of the backing memory.      *)

\* the validations of one record: of a Slice<T>, and of a Str (a Slice<u8>)
SingleSliceOps ==
    {"try_as_slice_mut_custom", "try_as_slice_custom", "try_as_slice_mut", "try_as_slice"}

SingleStrOps == {"try_as_str_mut_custom", "try_as_str_custom", "try_as_str_mut", "try_as_str"}

\* the record is non-null, aligned for elements of alignment a, and not too long
PassesRecordChecks(s, a) == s.ptr # 0 /\ s.ptr % a = 0 /\ s.len <= IsizeMax

\* C24: in one call of buffer validation the validator is invoked at most
\* once, with the buffer's pointer, and only after the non-null, alignment
\* and length checks have all passed; it is never invoked when any of those
\* three checks fails.
C24_ValidatorAfterChecks ==
    /\ op \in SingleSliceOps =>
           /\ Len(vlog) <= 1
           /\ vlog # << >> => (vlog = <<arg.self.ptr>> /\ PassesRecordChecks(arg.self, arg.T.align))
           /\ ~PassesRecordChecks(arg.self, arg.T.align) => vlog = << >>
    /\ op \in SingleStrOps =>
           /\ Len(vlog) <= 1
           /\ vlog # << >> => (vlog = <<arg.self.ptr>> /\ PassesRecordChecks(arg.self, 1))
           /\ ~PassesRecordChecks(arg.self, 1) => vlog = << >>

\* an aligned record the validator is asked about once, and refuses
C24_Witness ==
    /\ op = "try_as_slice_mut_custom"
    /\ arg.T = u64
    /\ arg.self = [ptr |-> 8, len |-> 2]
    /\ ret = SliceErr("Other")
    /\ vlog = <<8>>

\* the outer record passes its three checks and the validator accepts it
OuterAccepted ==
    PassesRecordChecks(arg.self, SliceElem.align) /\ arg.self.ptr \in arg.validator

\* the alignment of what an inner element addresses
InnerAlign == IF op = "try_into_slices_ptr_mut" THEN arg.T.align ELSE 1

\* the index of the last inner element the loop reaches: the first failing
\* one, or the last one
LastInspected == IF InvalidInner = {} THEN Len(arg.backing) ELSE Lowest(InvalidInner)

\* the pointers of the elements up to index n that pass the record checks
RECURSIVE InnerCalls(_)
InnerCalls(n) ==
    IF n = 0 THEN << >>
    ELSE InnerCalls(n - 1) \o
         (IF PassesRecordChecks(arg.backing[n], InnerAlign)
          THEN <<arg.backing[n].ptr>> ELSE << >>)

\* C25: nested validation inspects the outer buffer first and then the inner
\* elements in increasing index order: no inner element is passed to the
\* validator when the outer buffer fails, after the first failing inner
\* element i no element with index > i is inspected and the validator is not
\* invoked again; on success the validator has been invoked once for the
\* outer buffer and once per inner element, in index order.
C25_NestedOrder ==
    op \in NestedOps =>
        /\ ~PassesRecordChecks(arg.self, SliceElem.align) => vlog = << >>
        /\ (PassesRecordChecks(arg.self, SliceElem.align) /\ ~OuterAccepted) =>
               vlog = <<arg.self.ptr>>
        /\ OuterAccepted => vlog = <<arg.self.ptr>> \o InnerCalls(LastInspected)
        /\ ret.tag = "Ok" =>
               vlog = <<arg.self.ptr>> \o [i \in 1 .. Len(arg.backing) |-> arg.backing[i].ptr]

\* the first element is refused by the validator, the second would pass,
\* and the invocations end at the first
C25_Witness ==
    /\ op = "try_into_slices_ptr_mut"
    /\ arg.self.ptr = 8
    /\ arg.backing = <<[ptr |-> 2, len |-> 1], [ptr |-> 4, len |-> 1]>>
    /\ arg.validator = 4 .. MaxAddr
    /\ arg.T = u8
    /\ ret = SliceErr("Other")
    /\ vlog = <<8, 2>>

\* C26: the nested conversions reuse the backing memory in place and, the
\* local and FFI element layouts being identical, leave its data unchanged:
\* after from_slices_ptr_mut / from_str_slices_mut, and after
\* try_into_slices_ptr_mut / try_into_str_slices_mut whether it succeeds or
\* fails part-way, every element of the backing array holds the (pointer,
\* length) pair it held before, and the outer record has the array's pointer
\* and element count.
C26_BackingUnchanged ==
    /\ op \in {"from_slices_ptr_mut", "from_str_slices_mut"} =>
           /\ Len(arg.after) = Len(arg.backing)
           /\ \A i \in 1 .. Len(arg.backing) : arg.after[i] = arg.backing[i]
           /\ ret = [ptr |-> arg.slices.ptr, len |-> Len(arg.backing)]
    /\ op \in NestedOps =>
           /\ Len(arg.after) = Len(arg.backing)
           /\ \A i \in 1 .. Len(arg.backing) : arg.after[i] = arg.backing[i]
           /\ ret.tag = "Ok" => (ret.ptr = arg.self.ptr /\ ret.len = Len(arg.backing))

\* a conversion that stored its first element and failed at the second
C26_Witness ==
    /\ op = "try_into_slices_ptr_mut"
    /\ OuterAccepted
    /\ Len(arg.backing) = 2
    /\ InvalidInner = {2}
    /\ ret.tag = "Err"
    /\ arg.after = arg.backing

\* C27: SockMsgFlags::DONT_WAIT and SockMsgFlags::PEEK have the same bit
\* value (bit 0), so for every flag set f, f.contains(DONT_WAIT) equals
\* f.contains(PEEK).
C27_SameBit ==
    /\ DONT_WAIT = PEEK
    /\ DONT_WAIT = 2 ^ 0
    /\ op = "SockMsgFlags::contains" =>
           /\ contains(arg.self, DONT_WAIT) = contains(arg.self, PEEK)
           /\ arg.flag \in {"DONT_WAIT", "PEEK"} => ret.val = (arg.self % 2 = 1)
    /\ (op = "SockMsgFlags::bitor" /\ arg.flag \in {"DONT_WAIT", "PEEK"}) =>
           ret.val = IF arg.self % 2 = 1 THEN arg.self ELSE arg.self + 1

\* a set built from DONT_WAIT alone reports PEEK
C27_Witness ==
    /\ op = "SockMsgFlags::contains"
    /\ arg.self = u32_bitor(NONE, DONT_WAIT)
    /\ arg.flag = "PEEK"
    /\ ret.val = TRUE

\* C28: SyscallTable::try_from(v: u16) returns Ok(s) only if s is a declared
\* syscall whose number is v, and Err for every other v; equivalently the
\* declared numbers are pairwise distinct and cover every value below
\* NEXT_SYSCALL_NUM (48) with no gap.
C28_TryFromDeclared ==
    op = "SyscallTable::try_from" =>
        /\ ret.verdict = "Ok" =>
               /\ ret.syscall \in Syscalls
               /\ SyscallTable[ret.syscall] = arg.syscall_number
        /\ ret.verdict = "Err" <=>
               ~ \E s \in Syscalls : SyscallTable[s] = arg.syscall_number

\* C29: DirEntry::new(name, attrs) returns normally for every name,
\* including names longer than MAX_NAME_LENGTH (128) bytes, with
\* name_length == min(len(name), 128), the first name_length bytes of the
\* name field equal to the first name_length bytes of the name, every
\* remaining byte of the name field zero, and attrs unchanged.
C29_NewTruncates ==
    op = "DirEntry::new" =>
        /\ ret.outcome = "Ret"
        /\ ret.entry.name_length =
               (IF Len(arg.name) < MAX_NAME_LENGTH THEN Len(arg.name) ELSE MAX_NAME_LENGTH)
        /\ Len(ret.entry.name) = MAX_NAME_LENGTH
        /\ \A i \in 1 .. MAX_NAME_LENGTH :
               ret.entry.name[i] = IF i <= ret.entry.name_length THEN arg.name[i] ELSE 0
        /\ ret.entry.attrs = arg.attrs

\* C30: for every bit pattern of an OptZero<ShouldNotBeZero<int>>, the zero
\* pattern a foreign caller or new_unchecked(0) can produce included, the
\* conversion to Option<NonZero<int>> gives None when the stored integer is
\* zero and Some(n) with n the stored integer otherwise, and never a NonZero
\* holding zero; conversely a NonZero n taken through ShouldNotBeZero and
\* OptZero::some and back gives Some(n).
C30_DecodeNonZero ==
    op = "Option<NonZero>::from" =>
        /\ arg.optzero.inner.bits[1] = 0 => ret.tag = "None"
        /\ arg.optzero.inner.bits[1] # 0 =>
               (ret.tag = "Some" /\ ret.val = arg.optzero.inner.bits[1])
        /\ ret.tag = "Some" => ret.val # 0
        /\ prev.op = "RawTSpawnConfig::new" =>
               /\ ret.tag = prev.arg.custom_stack_size.tag
               /\ ret.tag = "Some" => ret.val = prev.arg.custom_stack_size.val

\* the zero pattern, stored by OptZero::some, decoded
C30_Witness ==
    /\ op = "Option<NonZero>::from"
    /\ prev.op = "OptZero::some"
    /\ prev.arg.x.ty.name = "i64"
    /\ arg.optzero.inner.bits = <<0>>
    /\ ret.tag = "None"

=============================================================================
